---- MODULE Spec2Model ----
(***************************************************************************)
(* Model of the ppi scraping pipeline (src/src/ppi): run_pipeline drives   *)
(* one shared page through run_one for each target row and writes one CSV  *)
(* row per target.  The page driver is the environment: every call on the  *)
(* page has a nondeterministic outcome.                                    *)
(*                                                                         *)
(* Representation.  Python None is NoneStr in string-valued slots and      *)
(* NoneText in text-valued slots; a text is a sequence of one-character    *)
(* strings so that strip/replace/regex are computed, not assumed; a raw    *)
(* selector is a sequence of tokens so that parse_selector is computed.    *)
(* `calls` records, for the target being processed, every call made on the *)
(* page, in order, with its outcome.                                       *)
(***************************************************************************)
EXTENDS Integers, Sequences, FiniteSets, TLC

\* Number of target rows the target source yields at most.
MaxTargets == 2

NoneStr == "None"
NoneText == <<"None">>
\* http_status when the driver returned no response object (None).
NoStatus == 0

(***************************************************************************)
(* Text helpers (Python str methods and the price regex).                  *)
(***************************************************************************)
NBSP == "nbsp"
IsSpace(c) == c \in {" ", NBSP}
IsDigit(c) == c \in {"0", "1", "2", "3", "4", "5", "6", "7", "8", "9"}

RECURSIVE LStrip(_)
LStrip(s) == IF s = <<>> THEN s
             ELSE IF IsSpace(Head(s)) THEN LStrip(Tail(s)) ELSE s

RECURSIVE RStrip(_)
RStrip(s) == IF s = <<>> THEN s
             ELSE IF IsSpace(s[Len(s)]) THEN RStrip(SubSeq(s, 1, Len(s) - 1)) ELSE s

\* str.strip(): U+00A0 is whitespace for Python, so it is stripped too.
Strip(s) == RStrip(LStrip(s))

\* str.replace(old, new) for a single character; new = <<>> deletes it.
RECURSIVE Replace(_, _, _)
Replace(s, old, new) ==
    IF s = <<>> THEN s
    ELSE (IF Head(s) = old THEN new ELSE <<Head(s)>>) \o Replace(Tail(s), old, new)

\* Length of the maximal run of digits of s starting at index i.
RECURSIVE DigitRun(_, _)
DigitRun(s, i) == IF i <= Len(s) /\ IsDigit(s[i]) THEN 1 + DigitRun(s, i + 1) ELSE 0

\* _num_re.search(s): the first match of (\d+(?:\.\d+)?), or NoneText.
num_re_search(s) ==
    IF \A i \in 1..Len(s) : ~IsDigit(s[i]) THEN NoneText
    ELSE LET i == CHOOSE k \in 1..Len(s) :
                      IsDigit(s[k]) /\ \A j \in 1..(k - 1) : ~IsDigit(s[j])
             n == DigitRun(s, i)
             dot == i + n
             m == IF dot <= Len(s) /\ s[dot] = "." THEN DigitRun(s, dot + 1) ELSE 0
         IN IF m > 0 THEN SubSeq(s, i, dot + m) ELSE SubSeq(s, i, i + n - 1)

normalize_price_text_keeps_commas(value) ==
    IF value = NoneText \/ value = <<>> THEN NoneText
    ELSE LET stripped == Strip(value)
             match == num_re_search(stripped)
         IN IF match # NoneText THEN match ELSE stripped

normalize_price_text(value) ==
    IF value = NoneText \/ value = <<>> THEN NoneText
    ELSE LET stripped == Strip(value)
             match == num_re_search(Replace(stripped, ",", <<>>))
         IN IF match # NoneText THEN match ELSE stripped

normalize_extracted_text(value) ==
    IF value = NoneText THEN NoneText
    ELSE Strip(Replace(value, NBSP, <<" ">>))

(***************************************************************************)
(* Selectors.                                                              *)
(***************************************************************************)
RECURSIVE IndexOf(_, _)
\* 1-based index of the first occurrence of tok in s, 0 when absent.
IndexOf(s, tok) ==
    IF s = <<>> THEN 0
    ELSE IF Head(s) = tok THEN 1
    ELSE LET r == IndexOf(Tail(s), tok) IN IF r = 0 THEN 0 ELSE r + 1

RECURSIVE RStripTok(_, _)
RStripTok(s, tok) ==
    IF s = <<>> THEN s
    ELSE IF s[Len(s)] = tok THEN RStripTok(SubSeq(s, 1, Len(s) - 1), tok) ELSE s

parse_selector(raw) ==
    LET sel == Strip(raw)
        a == IndexOf(sel, "::attr(")
    IN IF a > 0
       THEN [selector |-> SubSeq(sel, 1, a - 1), mode |-> "attr",
             attr |-> RStripTok(SubSeq(sel, a + 1, Len(sel)), ")")]
       ELSE IF sel # <<>> /\ sel[Len(sel)] = "::parent_text"
       THEN [selector |-> Replace(sel, "::parent_text", <<>>), mode |-> "parent_text",
             attr |-> NoneText]
       ELSE [selector |-> sel, mode |-> "text", attr |-> NoneText]

\* What the page holds for one base selector: count() and the values the
\* locator's accessors return.
NoElem == [count |-> 0, inner_text |-> NoneText, parent_text |-> NoneText,
           attribute |-> NoneText]
BlankElem == [count |-> 1, inner_text |-> <<" ", NBSP>>, parent_text |-> <<>>,
              attribute |-> NoneText]
PriceElem == [count |-> 1, inner_text |-> <<" ", "$", "3", "9", ".", "9">>,
              parent_text |-> <<"1", ",", "0", "0", "4">>,
              attribute |-> <<" ", "4", "4", ".", "5", "0", NBSP>>]
Elements == {NoElem, BlankElem, PriceElem}

\* The base selectors the locators of a selector list are made for.
BaseSelectors(selectors) == {parse_selector(selectors[i]).selector : i \in 1..Len(selectors)}

RECURSIVE first_value_keeps_empty(_, _)
first_value_keeps_empty(dom, selectors) ==
    IF selectors = <<>> THEN NoneText
    ELSE LET spec == parse_selector(Head(selectors))
             loc == dom[spec.selector]
             value == IF spec.mode = "text" THEN normalize_extracted_text(loc.inner_text)
                      ELSE IF spec.mode = "parent_text"
                      THEN normalize_extracted_text(loc.parent_text)
                      ELSE normalize_extracted_text(loc.attribute)
         IN IF loc.count = 0 THEN first_value_keeps_empty(dom, Tail(selectors))
            ELSE IF value # NoneText THEN value
            ELSE first_value_keeps_empty(dom, Tail(selectors))

\* first_value(page, selectors); dom maps each base selector to its element.
RECURSIVE first_value(_, _)
first_value(dom, selectors) ==
    IF selectors = <<>> THEN NoneText
    ELSE LET spec == parse_selector(Head(selectors))
             loc == dom[spec.selector]
             value == IF spec.mode = "text" THEN normalize_extracted_text(loc.inner_text)
                      ELSE IF spec.mode = "parent_text"
                      THEN normalize_extracted_text(loc.parent_text)
                      ELSE normalize_extracted_text(loc.attribute)
         IN IF loc.count = 0 THEN first_value(dom, Tail(selectors))
            ELSE IF value # NoneText /\ value # <<>> THEN value
            ELSE first_value(dom, Tail(selectors))

(***************************************************************************)
(* Retailer configuration.  A step is a record with every key a step may   *)
(* carry; a key the YAML step does not have holds None / the empty value.  *)
(***************************************************************************)
NoFields == <<>>
Step(a, u, sel, lim, f) ==
    [action |-> a, url |-> u, selector |-> sel, limit |-> lim, fields |-> f]
Goto(u) == Step("goto", u, NoneText, 0, NoFields)
WaitForSelector(sel) == Step("wait_for_selector", NoneStr, sel, 0, NoFields)
WaitForTimeout == Step("wait_for_timeout", NoneStr, NoneText, 0, NoFields)
Extract(f) == Step("extract", NoneStr, NoneText, 0, f)
Retry(n) == Step("retry", NoneStr, NoneText, n, NoFields)
Click == Step("click", NoneStr, NoneText, 0, NoFields)

\* A field spec of an extract step; an absent selector is NoneText, an
\* absent selectors_priority is <<>>.
FieldSpec(sel, prio, opt, ovr) ==
    [selector |-> sel, selectors_priority |-> prio, optional |-> opt,
     discounted_price_override |-> ovr]

\* A legacy discount / unit_price block; selector = NoneText: block absent.
Block(sel, ovr) == [selector |-> sel, discounted_price_override |-> ovr, optional |-> TRUE]
NoBlock == Block(NoneText, FALSE)

\* flow_is_list = FALSE: the retailer has no "flow" key (its flow is not a
\* list); the flow field is then unused.
RetailerConfig(flow, wait, nf, prio, disc, unit) ==
    [flow_is_list |-> TRUE, flow |-> flow, goto_wait_until |-> wait, not_found |-> nf,
     pricing |-> prio, discount |-> disc, unit_price |-> unit]

SelSale == <<".sale">>
SelPriceAttr == <<"meta", "::attr(", "content", ")">>
SelDisc == <<".red">>
SelUnit == <<".unit">>
SelBody == <<"body">>
SelGone == <<".gone">>
Sel404 == <<"text=404">>

\* The retailer configurations the runs are checked on.
BaseCfg ==
    RetailerConfig(<<Goto("u1"), WaitForSelector(SelBody)>>, NoneStr, <<>>,
                   <<SelPriceAttr, SelSale>>, NoBlock, NoBlock)
SoftCfg ==
    RetailerConfig(<<Goto("u1"), WaitForSelector(SelBody)>>, "networkidle",
                   <<Sel404, SelGone>>, <<SelSale>>,
                   Block(SelDisc, TRUE), NoBlock)
UnitCfg ==
    RetailerConfig(<<Goto("u1"), WaitForTimeout>>, "load", <<SelGone>>,
                   <<>>, Block(SelDisc, FALSE), Block(SelUnit, FALSE))
RetryCfg ==
    RetailerConfig(<<Goto("u1"), Retry(2), WaitForSelector(SelBody)>>, "networkidle",
                   <<>>, <<SelSale>>, NoBlock, NoBlock)
ExtractCfg ==
    RetailerConfig(<<Goto("u1"), WaitForSelector(SelBody),
                     Extract([final_price |-> FieldSpec(NoneText, <<SelSale>>, TRUE, FALSE)])>>,
                   NoneStr, <<SelGone>>, <<>>, NoBlock, NoBlock)
BadFieldCfg ==
    RetailerConfig(<<Goto("u1"),
                     Extract([final_price |-> FieldSpec(SelSale, <<SelSale>>, TRUE, FALSE)])>>,
                   NoneStr, <<>>, <<>>, NoBlock, NoBlock)
MultiHopCfg ==
    RetailerConfig(<<WaitForTimeout, Goto("u1"), WaitForSelector(SelBody), Goto("u2"),
                     WaitForSelector(SelSale)>>,
                   "networkidle", <<>>, <<SelSale>>, NoBlock, NoBlock)
NoGotoCfg ==
    RetailerConfig(<<WaitForTimeout>>, NoneStr, <<>>, <<SelSale>>, NoBlock, NoBlock)
ClickCfg ==
    RetailerConfig(<<Goto("u1"), Click, WaitForSelector(SelBody)>>, "networkidle",
                   <<>>, <<SelSale>>, NoBlock, NoBlock)
NoFlowCfg ==
    [RetailerConfig(<<>>, NoneStr, <<>>, <<SelSale>>, NoBlock, NoBlock)
        EXCEPT !.flow_is_list = FALSE]
\* A goto and an extract step whose fields are all optional.
GotoExtractCfg ==
    RetailerConfig(<<Goto("u1"),
                     Extract([final_price |-> FieldSpec(NoneText, <<SelPriceAttr, SelSale>>,
                                                        TRUE, FALSE),
                              discount |-> FieldSpec(SelDisc, <<>>, TRUE, FALSE)])>>,
                   NoneStr, <<>>, <<>>, NoBlock, NoBlock)
\* An extract step with a required field.
RequiredFieldCfg ==
    RetailerConfig(<<Goto("u1"),
                     Extract([final_price |-> FieldSpec(NoneText, <<SelSale, SelUnit>>,
                                                        FALSE, FALSE)])>>,
                   NoneStr, <<>>, <<>>, NoBlock, NoBlock)

Configs == {BaseCfg, SoftCfg, UnitCfg, RetryCfg, ExtractCfg, BadFieldCfg, MultiHopCfg,
            NoGotoCfg, ClickCfg, NoFlowCfg, GotoExtractCfg, RequiredFieldCfg}

(***************************************************************************)
(* config.py: validation of the retailers mapping.                         *)
(***************************************************************************)
Truthy(v) == v # NoneStr /\ v # ""
TruthyText(v) == v # NoneText /\ v # <<>>

KnownActions == {"goto", "wait_for_selector", "wait_for_timeout", "extract"}

validate_extract_fields_allows_both(retailer_id, fields) ==
    IF DOMAIN fields = {}
    THEN "Retailer '" \o retailer_id \o "' extract.fields must be a non-empty mapping"
    ELSE IF \E name \in DOMAIN fields :
               ~TruthyText(fields[name].selector)
               /\ ~TruthyText(fields[name].selectors_priority)
    THEN LET name == CHOOSE n \in DOMAIN fields :
                  ~TruthyText(fields[n].selector)
                  /\ ~TruthyText(fields[n].selectors_priority)
         IN "Retailer '" \o retailer_id \o "' field '" \o name
            \o "' must define exactly one of selector or selectors_priority"
    ELSE NoneStr

\* _validate_extract_fields: the message raised, or NoneStr.
validate_extract_fields(retailer_id, fields) ==
    IF DOMAIN fields = {}
    THEN "Retailer '" \o retailer_id \o "' extract.fields must be a non-empty mapping"
    ELSE IF \E name \in DOMAIN fields :
               TruthyText(fields[name].selector) = TruthyText(fields[name].selectors_priority)
    THEN LET name == CHOOSE n \in DOMAIN fields :
                  TruthyText(fields[n].selector) = TruthyText(fields[n].selectors_priority)
         IN "Retailer '" \o retailer_id \o "' field '" \o name
            \o "' must define exactly one of selector or selectors_priority"
    ELSE NoneStr

\* The message the loop over flow raises at its first offending step, or NoneStr.
RECURSIVE validate_steps(_, _)
validate_steps(retailer_id, flow) ==
    IF flow = <<>> THEN NoneStr
    ELSE LET step == Head(flow)
             err == IF step.action \notin KnownActions
                    THEN "Retailer '" \o retailer_id \o "' has unsupported action '"
                         \o step.action \o "'"
                    ELSE IF step.action = "extract"
                    THEN validate_extract_fields(retailer_id, step.fields)
                    ELSE NoneStr
         IN IF err # NoneStr THEN err ELSE validate_steps(retailer_id, Tail(flow))

\* The ValueError message normalize_retailers raises for one retailer, or NoneStr.
normalize_error(retailer_id, ret_cfg) ==
    IF ~ret_cfg.flow_is_list
    THEN "Retailer '" \o retailer_id \o "' flow must be a list"
    ELSE validate_steps(retailer_id, ret_cfg.flow)

\* normalize_retailers raises for this mapping.
normalize_rejects(rs) == \E r \in DOMAIN rs : normalize_error(r, rs[r]) # NoneStr

LegacyNames == {"final_price", "discount", "unit_price"}

\* The legacy blocks of a retailer that _legacy_extract_fields turns into fields.
legacy_declared(ret_cfg) ==
    { n \in LegacyNames :
        \/ n = "final_price" /\ TruthyText(ret_cfg.pricing)
        \/ n = "discount" /\ TruthyText(ret_cfg.discount.selector)
        \/ n = "unit_price" /\ TruthyText(ret_cfg.unit_price.selector) }

legacy_extract_fields_no_unit(ret_cfg) ==
    [ n \in legacy_declared(ret_cfg) \ {"unit_price"} |->
        IF n = "final_price" THEN FieldSpec(NoneText, ret_cfg.pricing, TRUE, FALSE)
        ELSE FieldSpec(ret_cfg.discount.selector, <<>>, ret_cfg.discount.optional,
                       ret_cfg.discount.discounted_price_override) ]

\* _legacy_extract_fields: field name -> field spec.
legacy_extract_fields(ret_cfg) ==
    [ n \in legacy_declared(ret_cfg) |->
        IF n = "final_price" THEN FieldSpec(NoneText, ret_cfg.pricing, TRUE, FALSE)
        ELSE IF n = "discount"
        THEN FieldSpec(ret_cfg.discount.selector, <<>>, ret_cfg.discount.optional,
                       ret_cfg.discount.discounted_price_override)
        ELSE FieldSpec(ret_cfg.unit_price.selector, <<>>, ret_cfg.unit_price.optional,
                       FALSE) ]

has_extract_blind(flow) == FALSE

\* has_extract after the loop over flow.
has_extract(flow) == \E i \in DOMAIN flow : flow[i].action = "extract"

normalized_flow_legacy_wins(ret_cfg) ==
    IF DOMAIN legacy_extract_fields(ret_cfg) # {}
    THEN Append(ret_cfg.flow, Extract(legacy_extract_fields(ret_cfg)))
    ELSE ret_cfg.flow

\* The flow list of a retailer that passed validation, after lines 96-99.
normalized_flow(ret_cfg) ==
    IF ~has_extract(ret_cfg.flow) /\ DOMAIN legacy_extract_fields(ret_cfg) # {}
    THEN Append(ret_cfg.flow, Extract(legacy_extract_fields(ret_cfg)))
    ELSE ret_cfg.flow

\* The order in which a retailers mapping yields its items.
RetailerOrder == <<"shop", "mart">>
InMapping(rs, ids) == SelectSeq(ids, LAMBDA r : r \in DOMAIN rs)

\* The message raised at the first retailer the loop rejects, or NoneStr.
RECURSIVE first_error(_, _)
first_error(rs, ids) ==
    IF ids = <<>> THEN NoneStr
    ELSE LET e == normalize_error(Head(ids), rs[Head(ids)])
         IN IF e # NoneStr THEN e ELSE first_error(rs, Tail(ids))

NoRetailers == <<>>
Outcome(raised, error, value) == [raised |-> raised, error |-> error, value |-> value]
NotCalled == Outcome(FALSE, NoneStr, NoRetailers)

\* normalize_retailers: the ValueError raised, or the mapping returned.
normalize_retailers(rs) ==
    LET e == first_error(rs, InMapping(rs, RetailerOrder))
    IN IF e # NoneStr THEN Outcome(TRUE, e, NoRetailers)
       ELSE Outcome(FALSE, NoneStr,
                    [r \in DOMAIN rs |-> [rs[r] EXCEPT !.flow = normalized_flow(rs[r])]])

\* The retailers the loop has finished with when it raises or returns.
RECURSIVE processed(_, _)
processed(rs, ids) ==
    IF ids = <<>> \/ normalize_error(Head(ids), rs[Head(ids)]) # NoneStr THEN {}
    ELSE {Head(ids)} \cup processed(rs, Tail(ids))

caller_after_inplace(rs) ==
    [r \in DOMAIN rs |->
        IF r \in processed(rs, InMapping(rs, RetailerOrder))
        THEN [rs[r] EXCEPT !.flow = normalized_flow(rs[r])] ELSE rs[r]]

\* The caller's mapping after the call: the loop works on deepcopy(retailers).
caller_after(rs) == rs

(***************************************************************************)
(* The text and selector helpers called on their own.                      *)
(***************************************************************************)
\* Longest text the text helpers are applied to.
MaxLen == 4
\* Longest selector list first_value is applied to.
MaxSelectors == 2

Alphabet == {" ", NBSP, "1", ".", ",", "a"}
RECURSIVE TextsUpTo(_)
TextsUpTo(n) ==
    IF n = 0 THEN {<<>>}
    ELSE TextsUpTo(n - 1)
         \cup {Append(t, c) : t \in {u \in TextsUpTo(n - 1) : Len(u) = n - 1}, c \in Alphabet}
\* value: str | None
TextInputs == TextsUpTo(MaxLen) \cup {NoneText}

SelParent == <<".unit", "::parent_text">>
RawSelectors == {SelSale, SelPriceAttr, SelParent}
RECURSIVE ListsUpTo(_)
ListsUpTo(n) ==
    IF n = 0 THEN {<<>>}
    ELSE ListsUpTo(n - 1)
         \cup {Append(l, r) : l \in {k \in ListsUpTo(n - 1) : Len(k) = n - 1},
                              r \in RawSelectors}
\* The pages first_value reads: each base selector with the element it finds.
Doms == [BaseSelectors(<<SelSale, SelPriceAttr, SelParent>>) -> Elements]
NoDom == [b \in BaseSelectors(<<SelSale, SelPriceAttr, SelParent>>) |-> NoElem]

HelperCall(fn, value, dom, selectors) ==
    [fn |-> fn, value |-> value, dom |-> dom, selectors |-> selectors]
NoArgs == HelperCall("none", NoneText, NoDom, <<>>)
HelperInputs ==
    {HelperCall(fn, v, NoDom, <<>>) :
        fn \in {"normalize_price_text", "normalize_extracted_text"}, v \in TextInputs}
    \cup {HelperCall("first_value", NoneText, dom, l) :
             dom \in Doms, l \in ListsUpTo(MaxSelectors)}

(***************************************************************************)
(* Pipeline state.                                                         *)
(***************************************************************************)
VARIABLES
    retailers,    \* get_retailers(cfg): retailer id -> configuration
    targets,      \* the target rows load_targets has yielded so far
    rows,         \* the rows writer.writerow has written, in order
    browser,      \* "open" | "closed"
    pc,           \* position of run_pipeline / run_one
    retailer_id,  \* run_pipeline locals for the target being processed
    product_id,
    out,
    exc,          \* the exception in flight / last handled for this target
    captured,     \* outcome of the debug capture for this target
    url,          \* run_one locals
    http_status,
    stepIdx,      \* execute_flow: index of the step being interpreted
    result,       \* run_one's out
    page,         \* what the last navigation loaded
    calls,        \* calls made on the page for this target, with outcomes
    given,        \* the mapping normalize_retailers was called with
    normalized,   \* what that call raised or returned
    renormalized, \* what normalize_retailers makes of the mapping it returned
    args,         \* a helper called on its own: the function and its arguments
    ret           \* what the helper returned

vars == <<retailers, targets, rows, browser, pc, retailer_id, product_id, out, exc,
          captured, url, http_status, stepIdx, result, page, calls, given, normalized,
          renormalized, args, ret>>

runOneVars == <<url, http_status, stepIdx, result, page>>
configVars == <<retailers, given, normalized, renormalized>>
helperVars == <<args, ret>>
batchVars == <<configVars, helperVars, targets, rows, browser>>
targetVars == <<retailer_id, product_id>>

RetailerIds == {"shop"}

TargetRow(rid, alias, retail, pid) ==
    [retailer_id |-> rid, retail_id |-> alias, retail |-> retail, product_id |-> pid]

\* The rows the target source may yield; an absent CSV column is NoneStr.
TargetRows ==
    { TargetRow("shop", NoneStr, NoneStr, "p1"),
      TargetRow("", NoneStr, "nope", "p2"),
      TargetRow(NoneStr, "", NoneStr, "p1"),
      TargetRow("shop", NoneStr, NoneStr, ""),
      TargetRow(NoneStr, NoneStr, "nope", "") }

\* row.get("retailer_id") or row.get("retail_id") or row.get("retail")
RetailerIdOf(row) ==
    IF Truthy(row.retailer_id) THEN row.retailer_id
    ELSE IF Truthy(row.retail_id) THEN row.retail_id
    ELSE row.retail

OUTPUT_FIELDS == {"retailer_id", "product_id", "url", "collected_at", "final_price",
                  "discount", "discount_flag", "unit_price_text", "error"}

NoUrl == <<NoneStr, NoneStr>>

base_output_row(rid, pid) ==
    [retailer_id |-> rid, product_id |-> pid, url |-> NoUrl, collected_at |-> NoneStr,
     final_price |-> NoneText, discount |-> NoneText, discount_flag |-> FALSE,
     unit_price_text |-> NoneText, error |-> NoneStr]

\* {**a, **b}
Merge(a, b) == b @@ a

\* An exception: its class, str(exc) and, for NotFoundError, http_status.
Exc(t, m, st) == [type |-> t, msg |-> m, http_status |-> st]
NoExc == Exc("none", "", NoStatus)

\* The dict run_one builds at lines 105-113.
run_one_out(u, st) ==
    [url |-> u, collected_at |-> "now", http_status |-> st, final_price |-> NoneText,
     discount |-> NoneText, discount_flag |-> FALSE, unit_price_text |-> NoneText]
NoResult == [run_one_out(NoUrl, NoStatus) EXCEPT !.collected_at = NoneStr]

NoPage == [not_found |-> {}, waits |-> <<>>]
\* Outcomes of the successive wait_for_selector calls still to be made on a
\* loaded page (TRUE: the selector reaches its state in time); calls beyond
\* the script succeed.
WaitScripts == {<<>>, <<FALSE>>, <<TRUE, FALSE>>, <<FALSE, FALSE>>}

Call(op, arg, wait, res) == [op |-> op, arg |-> arg, wait_until |-> wait, result |-> res]

Cfg == retailers[retailer_id]

\* ret_cfg.get("goto_wait_until", "domcontentloaded")
goto_wait_until == IF Cfg.goto_wait_until = NoneStr THEN "domcontentloaded"
                   ELSE Cfg.goto_wait_until

Init ==
    /\ retailers \in {[r \in RetailerIds |-> c] : c \in Configs}
    /\ targets = <<>>
    /\ rows = <<>>
    /\ browser = "open"
    /\ pc = "loop"
    /\ retailer_id = NoneStr
    /\ product_id = NoneStr
    /\ out = base_output_row(NoneStr, NoneStr)
    /\ exc = NoExc
    /\ captured = "none"
    /\ url = NoUrl
    /\ http_status = NoStatus
    /\ stepIdx = 0
    /\ result = NoResult
    /\ page = NoPage
    /\ calls = <<>>
    /\ given = retailers
    /\ normalized = NotCalled
    /\ renormalized = NotCalled
    /\ args = NoArgs
    /\ ret = NoneText

\* raise e inside the try block of run_pipeline
Raise(e) == exc' = e /\ pc' = "except"

(***************************************************************************)
(* run_pipeline: the head of the target loop.                              *)
(***************************************************************************)
target_check_product_first(rid, pid) ==
    IF ~Truthy(pid) THEN Exc("ValueError", "Missing product_id in targets.csv row", NoStatus)
    ELSE IF ~Truthy(rid)
    THEN Exc("ValueError", "Missing retailer_id in targets.csv row", NoStatus)
    ELSE IF rid \notin DOMAIN retailers
    THEN Exc("ValueError", "Retailer '" \o rid \o "' not found in config", NoStatus)
    ELSE NoExc

\* The ValueError the checks at lines 162-167 raise, or NoExc.
target_check(rid, pid) ==
    IF ~Truthy(rid) THEN Exc("ValueError", "Missing retailer_id in targets.csv row", NoStatus)
    ELSE IF rid \notin DOMAIN retailers
    THEN Exc("ValueError", "Retailer '" \o rid \o "' not found in config", NoStatus)
    ELSE IF ~Truthy(pid)
    THEN Exc("ValueError", "Missing product_id in targets.csv row", NoStatus)
    ELSE NoExc

NextTarget ==
    /\ pc = "loop"
    /\ Len(targets) < MaxTargets
    /\ \E row \in TargetRows :
         LET rid == RetailerIdOf(row)
             pid == row.product_id
             e == target_check(rid, pid)
         IN /\ targets' = Append(targets, row)
            /\ retailer_id' = rid
            /\ product_id' = pid
            /\ out' = base_output_row(rid, pid)
            /\ IF e # NoExc THEN Raise(e) ELSE exc' = NoExc /\ pc' = "build_url"
    /\ captured' = "none"
    /\ calls' = <<>>
    /\ url' = NoUrl
    /\ http_status' = NoStatus
    /\ stepIdx' = 0
    /\ result' = NoResult
    /\ UNCHANGED <<configVars, helperVars, rows, browser, page>>

\* load_targets is exhausted: the for loop and the with block end.
EndOfTargets ==
    /\ pc = "loop"
    /\ pc' = "close"
    /\ UNCHANGED <<batchVars, targetVars, out, exc, captured, runOneVars, calls>>

CloseBrowser ==
    /\ pc = "close"
    /\ browser' = "closed"
    /\ pc' = "done"
    /\ UNCHANGED <<configVars, helperVars, targets, rows, targetVars, out, exc, captured, runOneVars,
                   calls>>

(***************************************************************************)
(* run_one: navigation.                                                    *)
(***************************************************************************)
RECURSIVE FirstGoto(_)
\* Index in flow of the first goto step, 0 when there is none.
FirstGoto(flow) ==
    IF flow = <<>> THEN 0
    ELSE IF Head(flow).action = "goto" THEN 1
    ELSE LET r == FirstGoto(Tail(flow)) IN IF r = 0 THEN 0 ELSE r + 1

build_url_last_goto(ret_cfg, pid) ==
    LET last == CHOOSE i \in 1..Len(ret_cfg.flow) :
                    /\ ret_cfg.flow[i].action = "goto"
                    /\ \A j \in (i + 1)..Len(ret_cfg.flow) : ret_cfg.flow[j].action # "goto"
    IN <<ret_cfg.flow[last].url, pid>>

\* build_url: the formatted template is the pair <<template, product id>>.
build_url(ret_cfg, pid) == <<ret_cfg.flow[FirstGoto(ret_cfg.flow)].url, pid>>

BuildUrl ==
    /\ pc = "build_url"
    /\ IF ~Cfg.flow_is_list
       THEN Raise(Exc("KeyError", "'flow'", NoStatus)) /\ url' = url
       ELSE IF FirstGoto(Cfg.flow) = 0
       THEN Raise(Exc("ValueError", "No 'goto' step in flow", NoStatus)) /\ url' = url
       ELSE url' = build_url(Cfg, product_id) /\ pc' = "goto" /\ exc' = exc
    /\ UNCHANGED <<batchVars, targetVars, out, captured, http_status, stepIdx, result,
                   page, calls>>

\* response.status of the responses the driver may return; NoStatus: no response.
Statuses == {NoStatus, 200, 404}

\* The pages a navigation may load for the current retailer.
Pages == [not_found : SUBSET {Cfg.not_found[i] : i \in 1..Len(Cfg.not_found)},
          waits : WaitScripts]

falls_back_always(wait_until) == TRUE

\* The except clause at lines 83-90 retries the navigation.
falls_back(wait_until) == wait_until = "networkidle"

\* Mutant: the fallback navigation repeats the configured wait policy.
fallback_wait_until_same == goto_wait_until

\* wait_until of the navigation at line 88.
fallback_wait_until == "domcontentloaded"

\* Mutant: the status of the response is recorded but 404 is not singled out.
AfterGoto_no404(status) ==
    /\ http_status' = status
    /\ pc' = "flow" /\ stepIdx' = 1 /\ exc' = exc

\* Lines 92-94 and the entry into execute_flow.
AfterGoto(status) ==
    /\ http_status' = status
    /\ IF status = 404
       THEN Raise(Exc("NotFoundError", "HTTP 404", status)) /\ stepIdx' = stepIdx
       ELSE pc' = "flow" /\ stepIdx' = 1 /\ exc' = exc

\* page.goto(url, wait_until=w, ...) returns a response.
GotoReturns(w) ==
    \E st \in Statuses, pg \in Pages :
        /\ calls' = Append(calls, Call("goto", url, w, "ok"))
        /\ page' = pg
        /\ AfterGoto(st)

\* page.goto(url, wait_until=w, ...) raises a non-timeout driver error.
GotoFails(w) ==
    /\ calls' = Append(calls, Call("goto", url, w, "error"))
    /\ Raise(Exc("Error", "net::ERR_FAILED", NoStatus))
    /\ UNCHANGED <<http_status, stepIdx, page>>

PageGoto ==
    /\ pc = "goto"
    /\ \/ GotoReturns(goto_wait_until)
       \/ GotoFails(goto_wait_until)
       \/ /\ calls' = Append(calls, Call("goto", url, goto_wait_until, "timeout"))
          /\ IF falls_back(goto_wait_until)
             THEN pc' = "goto_fallback" /\ exc' = exc
             ELSE Raise(Exc("TimeoutError", "Timeout exceeded", NoStatus))
          /\ UNCHANGED <<http_status, stepIdx, page>>
    /\ UNCHANGED <<batchVars, targetVars, out, captured, url, result>>

PageGotoFallback ==
    /\ pc = "goto_fallback"
    /\ \/ GotoReturns(fallback_wait_until)
       \/ GotoFails(fallback_wait_until)
       \/ /\ calls' = Append(calls, Call("goto", url, fallback_wait_until, "timeout"))
          /\ Raise(Exc("TimeoutError", "Timeout exceeded", NoStatus))
          /\ UNCHANGED <<http_status, stepIdx, page>>
    /\ UNCHANGED <<batchVars, targetVars, out, captured, url, result>>

(***************************************************************************)
(* execute_flow: one action per kind of step.                              *)
(***************************************************************************)
InFlow == pc = "flow" /\ stepIdx <= Len(Cfg.flow)
CurStep == Cfg.flow[stepIdx]

\* Whether the next wait_for_selector call on the page returns in time.
NextWaitOk == IF page.waits # <<>> THEN Head(page.waits) ELSE TRUE

\* The page once that call has been made.
Waited(pg) == [pg EXCEPT !.waits = IF @ # <<>> THEN Tail(@) ELSE @]

\* The branch of execute_flow the step's action takes.
step_kind(action) ==
    IF action = "goto" THEN "skip"
    ELSE IF action = "wait_for_selector" THEN "wait_for_selector"
    ELSE IF action = "wait_for_timeout" THEN "wait_for_timeout"
    ELSE "unsupported"

FlowSkipGoto ==
    /\ InFlow
    /\ step_kind(CurStep.action) = "skip"
    /\ stepIdx' = stepIdx + 1
    /\ UNCHANGED <<batchVars, targetVars, pc, out, exc, captured, url, http_status,
                   result, page, calls>>

FlowWaitForSelector ==
    /\ InFlow
    /\ step_kind(CurStep.action) = "wait_for_selector"
    /\ IF NextWaitOk
       THEN /\ calls' = Append(calls, Call("wait_for_selector", CurStep.selector, NoneStr, "ok"))
            /\ stepIdx' = stepIdx + 1
            /\ UNCHANGED <<pc, exc>>
       ELSE /\ calls' = Append(calls, Call("wait_for_selector", CurStep.selector, NoneStr,
                                           "timeout"))
            /\ Raise(Exc("TimeoutError", "Timeout exceeded", NoStatus))
            /\ stepIdx' = stepIdx
    /\ page' = Waited(page)
    /\ UNCHANGED <<batchVars, targetVars, out, captured, url, http_status, result>>

FlowWaitForTimeout ==
    /\ InFlow
    /\ step_kind(CurStep.action) = "wait_for_timeout"
    /\ calls' = Append(calls, Call("wait_for_timeout", CurStep.selector, NoneStr, "ok"))
    /\ stepIdx' = stepIdx + 1
    /\ UNCHANGED <<batchVars, targetVars, pc, out, exc, captured, url, http_status,
                   result, page>>

FlowUnsupported ==
    /\ InFlow
    /\ step_kind(CurStep.action) = "unsupported"
    /\ Raise(Exc("ValueError", "Unsupported action: " \o CurStep.action, NoStatus))
    /\ UNCHANGED <<batchVars, targetVars, out, captured, runOneVars, calls>>

FlowDone ==
    /\ pc = "flow"
    /\ stepIdx > Len(Cfg.flow)
    /\ pc' = "detect"
    /\ UNCHANGED <<batchVars, targetVars, out, exc, captured, runOneVars, calls>>

(***************************************************************************)
(* run_one: soft-404 detection and the legacy extraction blocks.           *)
(***************************************************************************)
\* Mutant: only the first declared selector is looked up.
detect_first_only(pg, selectors) ==
    IF selectors # <<>> /\ Head(selectors) \in pg.not_found THEN Head(selectors)
    ELSE NoneText

RECURSIVE detect_not_found_selector(_, _)
\* The first selector of the list the page matches, or NoneText.
detect_not_found_selector(pg, selectors) ==
    IF selectors = <<>> THEN NoneText
    ELSE IF Head(selectors) \in pg.not_found THEN Head(selectors)
    ELSE detect_not_found_selector(pg, Tail(selectors))

RECURSIVE LocatorCalls(_, _)
\* The page.locator(sel).count() calls detect_not_found_selector makes.
LocatorCalls(pg, selectors) ==
    IF selectors = <<>> THEN <<>>
    ELSE IF Head(selectors) \in pg.not_found
    THEN <<Call("locator", Head(selectors), NoneStr, "1")>>
    ELSE <<Call("locator", Head(selectors), NoneStr, "0")>>
         \o LocatorCalls(pg, Tail(selectors))

DetectNotFound ==
    /\ pc = "detect"
    /\ LET not_found_selector == detect_not_found_selector(page, Cfg.not_found)
       IN /\ calls' = calls \o LocatorCalls(page, Cfg.not_found)
          /\ IF TruthyText(not_found_selector)
             THEN /\ Raise(Exc("NotFoundError", "Soft 404 / product not found", http_status))
                  /\ result' = result
             ELSE /\ result' = run_one_out(url, http_status)
                  /\ pc' = "final_price"
                  /\ exc' = exc
    /\ UNCHANGED <<batchVars, targetVars, out, captured, url, http_status, stepIdx, page>>

\* A locator accessor (inner_text, get_attribute) raises.
ExtractionFails(field) ==
    /\ calls' = Append(calls, Call("extract", <<field>>, NoneStr, "error"))
    /\ Raise(Exc("Error", "Locator.inner_text: Target closed", NoStatus))
    /\ result' = result

\* Lines 115-118.
ExtractFinalPrice ==
    /\ pc = "final_price"
    /\ IF Cfg.pricing # <<>>
       THEN \/ \E dom \in [BaseSelectors(Cfg.pricing) -> Elements] :
                 /\ result' = [result EXCEPT
                        !.final_price = normalize_price_text(first_value(dom, Cfg.pricing))]
                 /\ calls' = Append(calls, Call("extract", <<"final_price">>, NoneStr, "ok"))
                 /\ pc' = "discount"
                 /\ exc' = exc
            \/ ExtractionFails("final_price")
       ELSE pc' = "discount" /\ UNCHANGED <<result, calls, exc>>
    /\ UNCHANGED <<batchVars, targetVars, out, captured, url, http_status, stepIdx, page>>

\* loc.inner_text().strip() if loc.count() else None
stripped_text(el) == IF el.count # 0 THEN Strip(el.inner_text) ELSE NoneText

ExtractDiscount_ignores_override ==
    /\ pc = "discount"
    /\ IF TruthyText(Cfg.discount.selector)
       THEN \/ \E el \in Elements :
                 LET disc_text == stripped_text(el)
                 IN /\ result' = [result EXCEPT
                           !.discount = disc_text,
                           !.discount_flag = TruthyText(disc_text)]
                    /\ calls' = Append(calls, Call("extract", <<"discount">>, NoneStr, "ok"))
                    /\ pc' = "unit_price"
                    /\ exc' = exc
            \/ ExtractionFails("discount")
       ELSE pc' = "unit_price" /\ UNCHANGED <<result, calls, exc>>
    /\ UNCHANGED <<batchVars, targetVars, out, captured, url, http_status, stepIdx, page>>

\* Lines 120-127.
ExtractDiscount ==
    /\ pc = "discount"
    /\ IF TruthyText(Cfg.discount.selector)
       THEN \/ \E el \in Elements :
                 LET disc_text == stripped_text(el)
                     flag == TruthyText(disc_text)
                 IN /\ result' = [result EXCEPT
                           !.discount = disc_text,
                           !.discount_flag = flag,
                           !.final_price =
                               IF flag /\ Cfg.discount.discounted_price_override
                               THEN normalize_price_text(disc_text) ELSE @]
                    /\ calls' = Append(calls, Call("extract", <<"discount">>, NoneStr, "ok"))
                    /\ pc' = "unit_price"
                    /\ exc' = exc
            \/ ExtractionFails("discount")
       ELSE pc' = "unit_price" /\ UNCHANGED <<result, calls, exc>>
    /\ UNCHANGED <<batchVars, targetVars, out, captured, url, http_status, stepIdx, page>>

\* Lines 129-134.
ExtractUnitPrice ==
    /\ pc = "unit_price"
    /\ IF TruthyText(Cfg.unit_price.selector)
       THEN \/ \E el \in Elements :
                 /\ result' = [result EXCEPT !.unit_price_text = stripped_text(el)]
                 /\ calls' = Append(calls, Call("extract", <<"unit_price">>, NoneStr, "ok"))
                 /\ pc' = "return"
                 /\ exc' = exc
            \/ ExtractionFails("unit_price")
       ELSE pc' = "return" /\ UNCHANGED <<result, calls, exc>>
    /\ UNCHANGED <<batchVars, targetVars, out, captured, url, http_status, stepIdx, page>>

(***************************************************************************)
(* run_pipeline: the end of the try block, the handlers and the writer.    *)
(***************************************************************************)
\* Line 170: out = {**out, **result, "retailer_id": ..., "product_id": ...}
success_row(o, res, rid, pid) ==
    Merge(Merge(o, res), [retailer_id |-> rid, product_id |-> pid])

ReturnRow ==
    /\ pc = "return"
    /\ out' = success_row(out, result, retailer_id, product_id)
    /\ pc' = "write"
    /\ UNCHANGED <<batchVars, targetVars, exc, captured, runOneVars, calls>>

\* Lines 172-176.
not_found_row(o, e) == Merge(o, [http_status |-> e.http_status, error |-> "NOT_FOUND"])

\* Mutant: the error row is built over what run_one had extracted so far.
error_row_partial(o, e) == Merge(Merge(o, result), [error |-> e.msg])

\* Line 186: out = {**out, "error": str(exc)}
error_row(o, e) == Merge(o, [error |-> e.msg])

\* Mutant: the generic clause comes first and catches NotFoundError too
\* (NotFoundError is a ValueError).
handler_of_generic(e) == "exception"

\* The except clause that handles the exception.
handler_of(e) == IF e.type = "NotFoundError" THEN "not_found" ELSE "exception"

HandleNotFound ==
    /\ pc = "except"
    /\ handler_of(exc) = "not_found"
    /\ out' = not_found_row(out, exc)
    /\ pc' = "write"
    /\ UNCHANGED <<batchVars, targetVars, exc, captured, runOneVars, calls>>

\* How far the debug capture at lines 179-183 gets before it raises.
CaptureOutcomes == {"mkdir_failed", "content_failed", "write_failed",
                    "screenshot_failed", "saved"}

\* The calls the capture makes on the page.
capture_calls(outcome) ==
    IF outcome = "mkdir_failed" THEN <<>>
    ELSE IF outcome = "content_failed" THEN <<Call("content", <<>>, NoneStr, "error")>>
    ELSE IF outcome = "write_failed" THEN <<Call("content", <<>>, NoneStr, "ok")>>
    ELSE <<Call("content", <<>>, NoneStr, "ok"),
           Call("screenshot", <<>>, NoneStr,
                IF outcome = "saved" THEN "ok" ELSE "error")>>

\* Mutant: a failure of the capture is reported in place of the original one.
HandleException_masks ==
    /\ pc = "except"
    /\ handler_of(exc) = "exception"
    /\ \E outcome \in CaptureOutcomes :
         /\ captured' = outcome
         /\ calls' = calls \o capture_calls(outcome)
         /\ out' = IF outcome = "saved" THEN error_row(out, exc)
                   ELSE error_row(out, Exc("Error", "debug capture failed", NoStatus))
    /\ pc' = "write"
    /\ UNCHANGED <<batchVars, targetVars, exc, runOneVars>>

\* Lines 177-186: best-effort capture, then the error row.
HandleException ==
    /\ pc = "except"
    /\ handler_of(exc) = "exception"
    /\ \E outcome \in CaptureOutcomes :
         /\ captured' = outcome
         /\ calls' = calls \o capture_calls(outcome)
    /\ out' = error_row(out, exc)
    /\ pc' = "write"
    /\ UNCHANGED <<batchVars, targetVars, exc, runOneVars>>

\* csv.DictWriter(fieldnames=OUTPUT_FIELDS, extrasaction="ignore").writerow
written_row(o) == [k \in OUTPUT_FIELDS |-> o[k]]

\* Mutant: a failed target is dropped instead of written.
WriteRow_drops_failed ==
    /\ pc = "write"
    /\ rows' = IF out.error # NoneStr THEN rows ELSE Append(rows, written_row(out))
    /\ pc' = "loop"
    /\ UNCHANGED <<configVars, helperVars, targets, browser, targetVars, out, exc, captured,
                   runOneVars, calls>>

WriteRow ==
    /\ pc = "write"
    /\ rows' = Append(rows, written_row(out))
    /\ pc' = "loop"
    /\ UNCHANGED <<configVars, helperVars, targets, browser, targetVars, out, exc, captured,
                   runOneVars, calls>>

\* writer.writerow raises (the sink fails): the exception leaves the loop,
\* the with blocks unwind and run_pipeline ends without reaching line 191.
WriterFails ==
    /\ pc = "write"
    /\ exc' = Exc("OSError", "No space left on device", NoStatus)
    /\ pc' = "aborted"
    /\ UNCHANGED <<batchVars, targetVars, out, captured, runOneVars, calls>>

Next ==
    \/ NextTarget
    \/ EndOfTargets
    \/ CloseBrowser
    \/ BuildUrl
    \/ PageGoto
    \/ PageGotoFallback
    \/ FlowSkipGoto
    \/ FlowWaitForSelector
    \/ FlowWaitForTimeout
    \/ FlowUnsupported
    \/ FlowDone
    \/ DetectNotFound
    \/ ExtractFinalPrice
    \/ ExtractDiscount
    \/ ExtractUnitPrice
    \/ ReturnRow
    \/ HandleNotFound
    \/ HandleException
    \/ WriteRow
    \/ WriterFails

Spec == Init /\ [][Next]_vars

(***************************************************************************)
(* normalize_retailers called on a retailers mapping, on its own.          *)
(***************************************************************************)
OnlySelector == FieldSpec(SelSale, <<>>, FALSE, FALSE)
OnlyPriority == FieldSpec(NoneText, <<SelPriceAttr, SelSale>>, TRUE, FALSE)
BothKeys == FieldSpec(SelSale, <<SelSale>>, TRUE, FALSE)
NeitherKey == FieldSpec(NoneText, <<>>, TRUE, FALSE)

\* The flows the call is checked on.
NormFlows ==
    { <<>>,
      <<Goto("u1")>>,
      <<Goto("u1"), WaitForSelector(SelBody)>>,
      <<WaitForTimeout>>,
      <<WaitForSelector(SelBody), Goto("u1")>>,
      <<Goto("u1"), Retry(2), WaitForSelector(SelBody)>>,
      <<Goto("u1"), Click>>,
      <<Goto("u1"), Extract([final_price |-> OnlySelector])>>,
      <<Goto("u1"), Extract([final_price |-> OnlyPriority])>>,
      <<Goto("u1"), Extract([final_price |-> BothKeys])>>,
      <<Goto("u1"), Extract([final_price |-> NeitherKey])>>,
      <<Goto("u1"), Extract(NoFields)>>,
      <<Extract([final_price |-> OnlyPriority]), Goto("u1")>>,
      <<Goto("u1"), Extract([final_price |-> OnlySelector]),
        Extract([unit_price |-> OnlySelector])>>,
      <<Goto("u1"), Extract([final_price |-> OnlyPriority, discount |-> BothKeys])>> }

\* The configurations of the first retailer: every flow under every
\* combination of legacy blocks, and a retailer whose flow is not a list.
NormConfigs ==
    { RetailerConfig(flow, NoneStr, <<>>, prio, disc, unit) :
        flow \in NormFlows, prio \in {<<>>, <<SelSale>>},
        disc \in {NoBlock, Block(SelDisc, TRUE), Block(<<>>, FALSE)},
        unit \in {NoBlock, Block(SelUnit, FALSE)} }
    \cup {NoFlowCfg}

\* The mappings the call is made with: one retailer, or a second one after it.
NormInputs ==
    { [r \in {"shop"} |-> c] : c \in NormConfigs }
    \cup { [r \in {"shop", "mart"} |-> IF r = "shop" THEN c ELSE d] :
             c \in NormConfigs, d \in {SoftCfg, ClickCfg} }

NormInit ==
    /\ retailers \in NormInputs
    /\ given = retailers
    /\ normalized = NotCalled
    /\ renormalized = NotCalled
    /\ args = NoArgs
    /\ ret = NoneText
    /\ pc = "normalize"
    /\ targets = <<>>
    /\ rows = <<>>
    /\ browser = "closed"
    /\ retailer_id = NoneStr
    /\ product_id = NoneStr
    /\ out = base_output_row(NoneStr, NoneStr)
    /\ exc = NoExc
    /\ captured = "none"
    /\ url = NoUrl
    /\ http_status = NoStatus
    /\ stepIdx = 0
    /\ result = NoResult
    /\ page = NoPage
    /\ calls = <<>>

\* normalized = normalize_retailers(retailers), by return or by raise.
Normalize ==
    /\ pc = "normalize"
    /\ normalized' = normalize_retailers(retailers)
    /\ retailers' = caller_after(retailers)
    /\ pc' = IF normalized'.raised THEN "raised" ELSE "returned"
    /\ exc' = IF normalized'.raised THEN Exc("ValueError", normalized'.error, NoStatus)
              ELSE exc
    /\ UNCHANGED <<given, renormalized, helperVars, targets, rows, browser, targetVars, out,
                   captured, runOneVars, calls>>

\* The caller passes the mapping it got back to normalize_retailers again.
Renormalize ==
    /\ pc = "returned"
    /\ renormalized' = normalize_retailers(normalized.value)
    /\ pc' = "renormalized"
    /\ exc' = IF renormalized'.raised
              THEN Exc("ValueError", renormalized'.error, NoStatus) ELSE exc
    /\ UNCHANGED <<retailers, given, normalized, helperVars, targets, rows, browser,
                   targetVars, out, captured, runOneVars, calls>>

NormNext == Normalize \/ Renormalize

SpecNorm == NormInit /\ [][NormNext]_vars

(***************************************************************************)
(* normalize_price_text, normalize_extracted_text and first_value called   *)
(* on their own.                                                           *)
(***************************************************************************)
HelperInit ==
    /\ args \in HelperInputs
    /\ ret = NoneText
    /\ pc = "helper"
    /\ retailers = [r \in RetailerIds |-> BaseCfg]
    /\ given = retailers
    /\ normalized = NotCalled
    /\ renormalized = NotCalled
    /\ targets = <<>>
    /\ rows = <<>>
    /\ browser = "closed"
    /\ retailer_id = NoneStr
    /\ product_id = NoneStr
    /\ out = base_output_row(NoneStr, NoneStr)
    /\ exc = NoExc
    /\ captured = "none"
    /\ url = NoUrl
    /\ http_status = NoStatus
    /\ stepIdx = 0
    /\ result = NoResult
    /\ page = NoPage
    /\ calls = <<>>

HelperFrame ==
    /\ pc' = "helper_done"
    /\ UNCHANGED <<args, configVars, targets, rows, browser, targetVars, out, exc, captured,
                   runOneVars, calls>>

CallNormalizePriceText ==
    /\ pc = "helper" /\ args.fn = "normalize_price_text"
    /\ ret' = normalize_price_text(args.value)
    /\ HelperFrame

CallNormalizeExtractedText ==
    /\ pc = "helper" /\ args.fn = "normalize_extracted_text"
    /\ ret' = normalize_extracted_text(args.value)
    /\ HelperFrame

CallFirstValue ==
    /\ pc = "helper" /\ args.fn = "first_value"
    /\ ret' = first_value(args.dom, args.selectors)
    /\ HelperFrame

HelperNext == CallNormalizePriceText \/ CallNormalizeExtractedText \/ CallFirstValue

SpecHelpers == HelperInit /\ [][HelperNext]_vars

TypeOK ==
    /\ pc \in {"loop", "build_url", "goto", "goto_fallback", "flow", "detect", "final_price",
               "discount", "unit_price", "return", "except", "write", "close", "done",
               "aborted"}
    /\ browser \in {"open", "closed"}
    /\ Len(targets) <= MaxTargets

(***************************************************************************)
(* Vocabulary of the properties.                                           *)
(***************************************************************************)
IsGotoCall(c) == c.op = "goto"
IsStepCall(c) == c.op \in {"wait_for_selector", "wait_for_timeout"}
GotoCalls == SelectSeq(calls, IsGotoCall)
StepCalls == SelectSeq(calls, IsStepCall)

\* A configured retailer is being (or has last been) processed.
HasCfg == retailer_id \in DOMAIN retailers /\ Cfg.flow_is_list

\* run_pipeline is between two targets or past the loop, the row of the
\* last target read being the last row written.
RowWritten == pc \in {"loop", "close", "done"} /\ rows # <<>>
LastRow == rows[Len(rows)]

IsNotGoto(st) == st.action # "goto"
\* The non-goto steps among the first k steps of the flow, in order.
StepsUpTo(k) == SelectSeq(SubSeq(Cfg.flow, 1, k), IsNotGoto)

\* The first navigation of this target timed out under networkidle.
FirstGotoTimedOut ==
    /\ calls # <<>>
    /\ calls[1].op = "goto" /\ calls[1].result = "timeout"
    /\ calls[1].wait_until = "networkidle"

C2_Http404 ==
    http_status = 404 =>
        /\ pc \in {"except", "write", "loop", "close", "done", "aborted"}
        /\ pc # "aborted" => exc = Exc("NotFoundError", "HTTP 404", 404)
        /\ \A i \in 1..Len(calls) : calls[i].op = "goto"
        /\ pc = "write" => out.error = "NOT_FOUND"
        /\ pc \in {"loop", "close", "done"} =>
              /\ Len(rows) = Len(targets)
              /\ LastRow.error = "NOT_FOUND"
              /\ LastRow.product_id = product_id

C2_Witness ==
    /\ http_status = 404
    /\ pc = "loop"
    /\ LastRow.error = "NOT_FOUND"
    /\ Len(GotoCalls) = 2

\* The not-found selectors the retailer declares that the loaded page matches.
Declared == {Cfg.not_found[i] : i \in 1..Len(Cfg.not_found)}
SoftMatch == Declared \cap page.not_found # {}
IsSoft404(e) == e.type = "NotFoundError" /\ e.msg = "Soft 404 / product not found"
NoExtractCall == \A i \in 1..Len(calls) : calls[i].op # "extract"

\* C3: once navigation did not return 404 and the flow steps completed, a
\* page matching a declared not-found selector makes run_one raise
\* NotFoundError with the navigation's status before any extraction; with no
\* declared selector matching, no NotFoundError is raised there and
\* extraction proceeds.
C3_SoftNotFound ==
    HasCfg =>
        /\ pc \in {"final_price", "discount", "unit_price", "return"} => ~SoftMatch
        /\ (pc \in {"except", "write"} /\ stepIdx > Len(Cfg.flow) /\ SoftMatch) =>
              /\ IsSoft404(exc)
              /\ exc.http_status = http_status
              /\ http_status # 404
              /\ NoExtractCall
        /\ IsSoft404(exc) =>
              /\ SoftMatch
              /\ stepIdx > Len(Cfg.flow)
              /\ NoExtractCall
        /\ (pc = "write" /\ IsSoft404(exc)) => out.error = "NOT_FOUND"

C3_Witness ==
    /\ HasCfg
    /\ pc = "write"
    /\ IsSoft404(exc)
    /\ exc.http_status = 200
    /\ page.not_found = {SelGone}
    /\ Len(Cfg.not_found) = 2
    /\ Len(StepCalls) >= 1

HasRetry == \E i \in 1..Len(Cfg.flow) : Cfg.flow[i].action = "retry"
RetryIdx == CHOOSE i \in 1..Len(Cfg.flow) : Cfg.flow[i].action = "retry"
RetryLimit == Cfg.flow[RetryIdx].limit

\* The navigation of this target loaded a page other than a 404.
NavOk ==
    /\ GotoCalls # <<>>
    /\ GotoCalls[Len(GotoCalls)].result = "ok"
    /\ http_status # 404

IsTimedOutStep(c) == c.op = "wait_for_selector" /\ c.result = "timeout"
\* Attempts of the steps after the Retry step that have failed so far.
FailedAttempts == Len(SelectSeq(calls, IsTimedOutStep))

\* C4: with Retry{limit: N}, N >= 1, when the steps after it fail k-1 times
\* and then succeed, k <= N, run_one returns a row with tries = k
\* (k = 1 when nothing fails).  The page is one on which nothing but those
\* k-1 waits fails: every wait still to come succeeds, no not-found selector
\* matches and no locator accessor raises.
C4_RetryUntilSuccess ==
    (/\ HasCfg /\ HasRetry /\ RetryLimit >= 1
     /\ NavOk /\ ~SoftMatch
     /\ pc \in {"except", "return"}
     /\ FailedAttempts < RetryLimit
     /\ \A i \in 1..Len(page.waits) : page.waits[i]
     /\ \A i \in 1..Len(calls) : calls[i].op = "extract" => calls[i].result = "ok")
    => /\ pc = "return"
       /\ "tries" \in DOMAIN result
       /\ result["tries"] = FailedAttempts + 1

\* C5: with Retry{limit: N}, when the steps after it time out on every
\* attempt, run_one runs them exactly N times and fails with the timeout of
\* the N-th attempt.  The page is one on which the wait never succeeds within
\* N attempts.
C5_RetryLimit ==
    (/\ HasCfg /\ HasRetry /\ RetryLimit >= 1
     /\ NavOk
     /\ pc = "except"
     /\ FailedAttempts + Len(page.waits) >= RetryLimit
     /\ \A i \in 1..Len(page.waits) : ~page.waits[i]
     /\ \A i \in 1..Len(calls) : calls[i].op = "wait_for_selector" =>
                                     calls[i].result = "timeout")
    => /\ FailedAttempts = RetryLimit
       /\ exc.type = "TimeoutError"

RowsDone == pc \in {"loop", "close", "done"}
Failed(e) == e # NoExc

\* C6: one row per target, in input order, whatever each target's outcome:
\* the i-th row carries the i-th target's retailer id and product id, a
\* target being processed is the only one without its row yet, and no
\* failure of a target ends the loop (only the sink failing does).
C6_OneRowPerTarget ==
    /\ \A i \in 1..Len(rows) :
          /\ i <= Len(targets)
          /\ rows[i].retailer_id = RetailerIdOf(targets[i])
          /\ rows[i].product_id = targets[i].product_id
    /\ RowsDone => Len(rows) = Len(targets)
    /\ ~RowsDone => Len(rows) = Len(targets) - 1
    /\ pc = "aborted" => exc.type = "OSError"

C6_Witness ==
    /\ pc = "loop"
    /\ Len(rows) = 2
    /\ rows[1].error \notin {NoneStr, "NOT_FOUND"}
    /\ rows[1].retailer_id = "shop"
    /\ rows[2].error = NoneStr

Pristine(r) ==
    /\ r.final_price = NoneText
    /\ r.discount = NoneText
    /\ r.unit_price_text = NoneText
    /\ r.discount_flag = FALSE

\* C7: a failed target's row has final_price, discount and unit_price_text
\* null and discount_flag false, with error "NOT_FOUND" for a NotFoundError
\* and the failure's message otherwise; a successful target's row has error
\* null.
C7_FailedRowIsPristine ==
    /\ \A i \in 1..Len(rows) : rows[i].error # NoneStr => Pristine(rows[i])
    /\ RowWritten =>
          /\ exc.type = "NotFoundError" => LastRow.error = "NOT_FOUND"
          /\ (Failed(exc) /\ exc.type # "NotFoundError") => LastRow.error = exc.msg
          /\ Failed(exc) => Pristine(LastRow) /\ LastRow.error # NoneStr
          /\ ~Failed(exc) => LastRow.error = NoneStr

C7_Witness ==
    /\ RowWritten
    /\ exc.type = "Error"
    /\ result.final_price # NoneText
    /\ LastRow.error = exc.msg
    /\ LastRow.final_price = NoneText

IsCaptureCall(c) == c.op \in {"content", "screenshot"}
CaptureCalls == SelectSeq(calls, IsCaptureCall)

\* C8: debug capture is performed for a target exactly when its processing
\* failed with something other than NotFoundError.
C8_CaptureIffUnexpected ==
    /\ captured # "none" => (Failed(exc) /\ exc.type # "NotFoundError")
    /\ CaptureCalls # <<>> => captured # "none"
    /\ (pc \in {"write", "loop", "close", "done"} /\ Failed(exc)
        /\ exc.type # "NotFoundError") => captured # "none"
    /\ captured = "saved" =>
          /\ Len(CaptureCalls) = 2
          /\ CaptureCalls[1].op = "content" /\ CaptureCalls[2].op = "screenshot"

C8_Witness ==
    /\ pc = "write"
    /\ captured = "saved"
    /\ exc.type = "TimeoutError"
    /\ Len(CaptureCalls) = 2

CaptureFailed == captured \in {"mkdir_failed", "content_failed", "write_failed",
                               "screenshot_failed"}

\* C9: a failure of the debug capture is swallowed: the target's row is
\* still written, its error is the original failure's message, and the loop
\* goes on.
C9_CaptureFailureSwallowed ==
    CaptureFailed =>
        /\ pc \in {"write", "loop", "close", "done", "aborted"}
        /\ pc = "write" => out.error = exc.msg
        /\ RowsDone =>
              /\ Len(rows) = Len(targets)
              /\ LastRow.error = exc.msg
              /\ LastRow.retailer_id = retailer_id

C9_Witness ==
    /\ captured = "content_failed"
    /\ pc = "loop"
    /\ exc.type = "TimeoutError"
    /\ LastRow.error = "Timeout exceeded"
    /\ Len(targets) < MaxTargets

\* C10: every retailer configuration is validated before any navigation: with
\* a configuration normalize_retailers rejects, the run aborts and no
\* page.goto is ever issued.
C10_ValidatedBeforeNavigation ==
    normalize_rejects(retailers) => GotoCalls = <<>>

\* run_pipeline has been left, normally or by an exception.
PipelineExited == pc \in {"done", "aborted"}

\* C11: once the browser is launched, browser.close has been called on every
\* exit path of run_pipeline, including an exception leaving the target loop.
C11_BrowserClosedOnExit ==
    PipelineExited => browser = "closed"

(***************************************************************************)
(* Properties of normalize_retailers (SpecNorm).                           *)
(***************************************************************************)
Returned == pc = "returned"
Raised == pc = "raised"

ExtractSteps(flow) == {i \in 1..Len(flow) : flow[i].action = "extract"}

\* The legacy blocks a retailer declares: pricing.final_price.selectors_priority,
\* discount.selector, unit_price.selector (a non-empty value).
DeclaredBlocks(c) ==
    (IF c.pricing # <<>> THEN {"final_price"} ELSE {})
    \cup (IF c.discount.selector \notin {NoneText, <<>>} THEN {"discount"} ELSE {})
    \cup (IF c.unit_price.selector \notin {NoneText, <<>>} THEN {"unit_price"} ELSE {})

\* C12: for every retailer whose flow has no extract step and that declares
\* at least one legacy block, the flow normalize_retailers returns is the
\* original flow followed by exactly one extract step, the last element,
\* whose field names are exactly the declared legacy blocks.
C12_LegacyExtractAppended ==
    Returned =>
        \A r \in DOMAIN given :
            LET c == given[r]
                f == normalized.value[r].flow
            IN ExtractSteps(c.flow) = {} /\ DeclaredBlocks(c) # {} =>
                  /\ Len(f) = Len(c.flow) + 1
                  /\ SubSeq(f, 1, Len(c.flow)) = c.flow
                  /\ ExtractSteps(f) = {Len(f)}
                  /\ DOMAIN f[Len(f)].fields = DeclaredBlocks(c)

\* A non-empty flow without extract, declaring final_price and unit_price
\* but no discount, was normalized.
C12_Witness ==
    /\ Returned
    /\ given["shop"].flow # <<>>
    /\ ExtractSteps(given["shop"].flow) = {}
    /\ DeclaredBlocks(given["shop"]) = {"final_price", "unit_price"}

\* C13: for every retailer whose flow already has an extract step, the flow
\* normalize_retailers returns is identical to the input flow, whatever
\* legacy blocks are declared.
C13_ExplicitExtractWins ==
    Returned =>
        \A r \in DOMAIN given :
            ExtractSteps(given[r].flow) # {} =>
                normalized.value[r].flow = given[r].flow

\* A flow with an extract step was normalized though all three legacy blocks
\* are declared.
C13_Witness ==
    /\ Returned
    /\ ExtractSteps(given["shop"].flow) # {}
    /\ DeclaredBlocks(given["shop"]) = LegacyNames

HasSelector(spec) == spec.selector \notin {NoneText, <<>>}
HasPriority(spec) == spec.selectors_priority # <<>>

\* The field specs of the mapping's extract steps that declare both or
\* neither of selector and selectors_priority, as <<retailer id, field name>>.
BadSpecs(rs) ==
    { <<r, n>> \in (DOMAIN rs) \X LegacyNames :
        /\ rs[r].flow_is_list
        /\ \E i \in ExtractSteps(rs[r].flow) :
              /\ n \in DOMAIN rs[r].flow[i].fields
              /\ HasSelector(rs[r].flow[i].fields[n]) = HasPriority(rs[r].flow[i].fields[n]) }

\* Something other than a field spec is wrong with the mapping: a flow that
\* is not a list, a step that normalize_retailers does not take, or an
\* extract step without fields.
OtherDefect(rs) ==
    \E r \in DOMAIN rs :
        \/ ~rs[r].flow_is_list
        \/ \E i \in 1..Len(rs[r].flow) :
              \/ rs[r].flow[i].action \in {"retry", "click"}
              \/ rs[r].flow[i].action = "extract" /\ DOMAIN rs[r].flow[i].fields = {}

FieldError(r, n) ==
    "Retailer '" \o r \o "' field '" \o n
    \o "' must define exactly one of selector or selectors_priority"

\* C14: a field spec of an extract step that declares both selector and
\* selectors_priority, or neither, makes normalize_retailers fail; when
\* nothing else is wrong with the mapping the error names the retailer id and
\* the field name, and a mapping whose field specs each declare exactly one
\* of the two is accepted.
C14_ExactlyOneSelectorKey ==
    pc \in {"returned", "raised"} =>
        /\ BadSpecs(given) # {} => Raised
        /\ BadSpecs(given) # {} /\ ~OtherDefect(given) =>
              \E b \in BadSpecs(given) : normalized.error = FieldError(b[1], b[2])
        /\ BadSpecs(given) = {} /\ ~OtherDefect(given) => Returned

\* An extract step whose final_price is well-formed and whose discount
\* declares both keys was rejected, the error naming discount.
C14_Witness ==
    /\ Raised
    /\ BadSpecs(given) = {<<"shop", "discount">>}
    /\ normalized.error = FieldError("shop", "discount")

Called == pc \in {"returned", "raised"}

\* C16: normalize_retailers rejects every retailer whose flow is not a list
\* or is an empty list.
C16_EmptyFlowRejected ==
    Called =>
        \A r \in DOMAIN given :
            ~given[r].flow_is_list \/ given[r].flow = <<>> => Raised

FiveActions == {"goto", "wait_for_selector", "wait_for_timeout", "extract", "retry"}
UnsupportedError(r, a) == "Retailer '" \o r \o "' has unsupported action '" \o a \o "'"

\* C17: normalize_retailers accepts a step if and only if its action is one
\* of goto, wait_for_selector, wait_for_timeout, extract, retry: a step with
\* any other action makes the call fail, and the call never fails with an
\* 'unsupported action' error for one of the five (retry included).
C17_FiveKnownActions ==
    Called =>
        /\ \A r \in DOMAIN given :
              (/\ given[r].flow_is_list
               /\ \E i \in 1..Len(given[r].flow) :
                     given[r].flow[i].action \notin FiveActions) => Raised
        /\ \A r \in DOMAIN given : \A a \in FiveActions :
              normalized.error # UnsupportedError(r, a)

\* The flow has a goto step with no wait_for_selector or extract step ahead of it.
GotoComesFirst(flow) ==
    \E i \in 1..Len(flow) :
        /\ flow[i].action = "goto"
        /\ \A j \in 1..(i - 1) : flow[j].action \notin {"wait_for_selector", "extract"}

\* C18: every flow normalize_retailers accepts has a goto step ahead of any
\* wait_for_selector or extract step; a flow with no goto, or with such a
\* step ahead of its first goto, is rejected.  Stated for the flows that
\* have a step at all.
C18_GotoBeforeWaitOrExtract ==
    Returned =>
        \A r \in DOMAIN given : given[r].flow # <<>> => GotoComesFirst(given[r].flow)

(***************************************************************************)
(* run_one on flows with an extract step (Spec).                           *)
(***************************************************************************)
\* run_one raised while execute_flow was at an extract step.
FailedAtExtract ==
    /\ pc = "except"
    /\ HasCfg
    /\ stepIdx \in 1..Len(Cfg.flow)
    /\ CurStep.action = "extract"

RequiredFields(step) == {n \in DOMAIN step.fields : ~step.fields[n].optional}

\* C19: in run_one, a required field of an Extract step none of whose
\* selectors resolves makes the run fail with a message naming the retailer
\* id, the field name and the selectors tried.  Hence a run that fails at an
\* Extract step with a required field has looked selectors up on the page,
\* and its error is not the interpreter refusing the step.
C19_RequiredFieldFailureNamed ==
    FailedAtExtract /\ RequiredFields(CurStep) # {} =>
        /\ ~NoExtractCall
        /\ exc.msg # "Unsupported action: extract"

IsGotoExtract(flow) ==
    Len(flow) = 2 /\ flow[1].action = "goto" /\ flow[2].action = "extract"

\* C20: for a flow of a Goto step followed by an Extract step, run_one
\* returns a row holding for each field the normalized value of its first
\* resolving selector, and null for an optional field that does not resolve,
\* without the run failing.  Hence, once the navigation has succeeded, a
\* flow whose well-formed fields are all optional does not fail at the
\* Extract step.
C20_GotoExtractReturnsRow ==
    (/\ HasCfg
     /\ IsGotoExtract(Cfg.flow)
     /\ BadSpecs(retailers) = {}
     /\ RequiredFields(Cfg.flow[2]) = {}
     /\ NavOk) => ~FailedAtExtract

(***************************************************************************)
(* Properties of the helpers (SpecHelpers).                                *)
(***************************************************************************)
HelperReturned(fn) == pc = "helper_done" /\ args.fn = fn

\* The element the page holds for a raw selector, and the value the
\* selector's mode reads from it.
ElementOf(dom, raw) == dom[parse_selector(raw).selector]
ValueOf(dom, raw) ==
    LET mode == parse_selector(raw).mode
        el == ElementOf(dom, raw)
    IN IF mode = "attr" THEN el.attribute
       ELSE IF mode = "parent_text" THEN el.parent_text
       ELSE el.inner_text

\* The selector's element exists and its value is neither null nor empty
\* once normalized.
Qualifies(dom, raw) ==
    /\ ElementOf(dom, raw).count > 0
    /\ normalize_extracted_text(ValueOf(dom, raw)) \notin {NoneText, <<>>}

\* C21: first_value returns the normalized value of the lowest-index selector
\* whose element exists and whose normalized value is neither null nor
\* empty, skipping the selectors before it; it returns null when no selector
\* qualifies, and never the empty string.
C21_FirstValueLowestQualifying ==
    HelperReturned("first_value") =>
        LET Q == {i \in 1..Len(args.selectors) : Qualifies(args.dom, args.selectors[i])}
        IN /\ ret # <<>>
           /\ Q = {} => ret = NoneText
           /\ Q # {} =>
                 LET i == CHOOSE k \in Q : \A j \in Q : k <= j
                 IN ret = normalize_extracted_text(ValueOf(args.dom, args.selectors[i]))

\* The first selector's element exists but holds only blanks, the second
\* one's attribute is returned trimmed.
C21_Witness ==
    /\ HelperReturned("first_value")
    /\ args.selectors = <<SelSale, SelPriceAttr>>
    /\ ElementOf(args.dom, SelSale) = BlankElem
    /\ ret = <<"4", "4", ".", "5", "0">>

(***************************************************************************)
(* Further properties of the pipeline (Spec).                              *)
(***************************************************************************)
\* run_one has read the discount block of the configuration.
DiscountRead == pc = "discount" /\ pc' = "unit_price" /\ Cfg.discount.selector \notin {NoneText, <<>>}
DiscountExtracted(row) == row.discount \notin {NoneText, <<>>}

\* C22: in the row run_one returns, an extracted (non-empty) discount sets
\* discount_flag, and with discounted_price_override final_price is the
\* price-normalized discount text instead of what the final-price selectors
\* gave; without the override, or without a discount, final_price stays what
\* the final-price selectors gave, and the later extraction keeps all three.
C22_DiscountOverride ==
    [][ /\ DiscountRead =>
             /\ result'.discount_flag = DiscountExtracted(result')
             /\ result'.final_price =
                   IF DiscountExtracted(result') /\ Cfg.discount.discounted_price_override
                   THEN normalize_price_text(result'.discount)
                   ELSE result.final_price
        /\ pc = "unit_price" =>
             /\ result'.discount = result.discount
             /\ result'.discount_flag = result.discount_flag
             /\ result'.final_price = result.final_price ]_vars

\* run_one returns a row whose final_price 39.9 comes from the discount
\* text "$39.9" of a retailer with the override.
C22_Witness ==
    /\ pc = "return"
    /\ Cfg.discount.discounted_price_override
    /\ Cfg.pricing # <<>>
    /\ result.discount = <<"$", "3", "9", ".", "9">>
    /\ result.discount_flag
    /\ result.final_price = <<"3", "9", ".", "9">>

GotoSteps(flow) == {i \in 1..Len(flow) : flow[i].action = "goto"}
\* The url template of the first goto step of a flow that has one.
FirstGotoUrl(flow) == flow[CHOOSE i \in GotoSteps(flow) : \A j \in GotoSteps(flow) : i <= j].url

\* run_one has been called for the target being processed.
RunOneCalled == HasCfg /\ Truthy(product_id) /\ pc \notin {"build_url", "aborted"}
OnlyCaptureCalls == \A i \in 1..Len(calls) : IsCaptureCall(calls[i])

\* C23: run_one builds the navigation URL from the first goto step of the
\* flow, whatever goto steps follow it, and every navigation goes to that
\* URL; with no goto step in the flow it fails with "No 'goto' step in flow"
\* before any operation on the page.
C23_UrlFromFirstGoto ==
    RunOneCalled =>
        IF GotoSteps(Cfg.flow) # {}
        THEN /\ url = <<FirstGotoUrl(Cfg.flow), product_id>>
             /\ \A i \in 1..Len(GotoCalls) : GotoCalls[i].arg = url
        ELSE /\ exc = Exc("ValueError", "No 'goto' step in flow", NoStatus)
             /\ OnlyCaptureCalls

\* A flow with two goto steps has been run to its end after a navigation to
\* the first one's URL.
C23_Witness ==
    /\ RunOneCalled
    /\ Cardinality(GotoSteps(Cfg.flow)) = 2
    /\ pc = "detect"
    /\ GotoCalls[1].arg = <<"u1", "p1">>

IsComma(c) == c = ","
IsNotComma(c) == ~IsComma(c)
DigitAt(t) == {i \in 1..Len(t) : IsDigit(t[i])}
NonSpaceAt(t) == {i \in 1..Len(t) : ~IsSpace(t[i])}
Least(S) == CHOOSE i \in S : \A j \in S : i <= j
Greatest(S) == CHOOSE i \in S : \A j \in S : j <= i

\* A numeric token: digits with an optional single decimal part.
IsNumericToken(x) ==
    /\ x # <<>>
    /\ \A i \in 1..Len(x) : IsDigit(x[i]) \/ x[i] = "."
    /\ Cardinality({i \in 1..Len(x) : x[i] = "."}) <= 1
    /\ IsDigit(x[1]) /\ IsDigit(x[Len(x)])

\* The first numeric token of a text that has a digit: the longest one
\* starting at the first digit.
FirstNumericToken(t) ==
    LET i == Least(DigitAt(t))
    IN SubSeq(t, i, Greatest({j \in i..Len(t) : IsNumericToken(SubSeq(t, i, j))}))

\* The text without its surrounding whitespace.
Trimmed(t) ==
    IF NonSpaceAt(t) = {} THEN <<>>
    ELSE SubSeq(t, Least(NonSpaceAt(t)), Greatest(NonSpaceAt(t)))

\* C24: normalize_price_text maps null and the empty string to null, a text
\* with a digit to the first numeric token found once all commas are
\* deleted, and a text without digit to the text trimmed of surrounding
\* whitespace.
C24_PriceText ==
    HelperReturned("normalize_price_text") =>
        ret = IF args.value \in {NoneText, <<>>} THEN NoneText
              ELSE IF DigitAt(args.value) # {}
              THEN FirstNumericToken(SelectSeq(args.value, IsNotComma))
              ELSE Trimmed(args.value)

\* " 1,1" gives "11": the text is trimmed and the comma is deleted before the
\* token is read.
C24_Witness ==
    /\ HelperReturned("normalize_price_text")
    /\ args.value = <<" ", "1", ",", "1">>
    /\ ret = <<"1", "1">>

IsOkGoto(c) == c.op = "goto" /\ c.result = "ok"

\* C25: every goto step of a flow causes a navigation when the interpreter
\* reaches it, so once the flow has been run to its end the page has been
\* navigated once per goto step (twice for a two-goto flow).
C25_EveryGotoNavigates ==
    (HasCfg /\ pc = "detect") =>
        Len(SelectSeq(calls, IsOkGoto)) = Cardinality(GotoSteps(Cfg.flow))

\* A timeout that is not retried: of a wait_for_selector step, or of a
\* navigation other than one under networkidle.
FatalTimeout(c) ==
    /\ c.result = "timeout"
    /\ c.op = "wait_for_selector" \/ (c.op = "goto" /\ c.wait_until # "networkidle")

RunOneFailed == pc \in {"except", "write", "loop", "close", "done", "aborted"}

\* C26: only the timeout of a networkidle navigation is retried.  A
\* navigation timeout under another wait policy, a timeout of the fallback
\* navigation and a timeout of a wait_for_selector step each make run_one
\* fail with nothing further done on the page but debug capture; run_one
\* issues at most two page.goto calls per target, and one when the first
\* does not time out.
C26_OnlyNetworkIdleRetried ==
    /\ Len(GotoCalls) <= 2
    /\ (GotoCalls # <<>> /\ GotoCalls[1].result # "timeout") => Len(GotoCalls) = 1
    /\ Len(GotoCalls) = 2 =>
          /\ GotoCalls[1].result = "timeout"
          /\ GotoCalls[1].wait_until = "networkidle"
          /\ GotoCalls[2].wait_until # "networkidle"
    /\ \A i \in 1..Len(calls) :
          FatalTimeout(calls[i]) =>
              /\ RunOneFailed
              /\ pc # "aborted" => exc.type = "TimeoutError"
              /\ \A j \in (i + 1)..Len(calls) : IsCaptureCall(calls[j])

\* The fallback navigation timed out as well and the target's row is about
\* to be written as a failure.
C26_Witness ==
    /\ pc = "write"
    /\ Len(GotoCalls) = 2
    /\ GotoCalls[2].result = "timeout"
    /\ exc.type = "TimeoutError"

RECURSIVE NbspToSpace(_)
NbspToSpace(t) ==
    IF t = <<>> THEN t
    ELSE <<IF Head(t) = NBSP THEN " " ELSE Head(t)>> \o NbspToSpace(Tail(t))

\* C27: normalize_extracted_text returns null, not the empty string, for an
\* input that is null or made only of whitespace and non-breaking spaces;
\* for any other input it returns the text with non-breaking spaces turned
\* into spaces and surrounding whitespace trimmed.  Stated for the inputs
\* other than the empty string.
C27_BlankIsNull ==
    HelperReturned("normalize_extracted_text") /\ args.value # <<>> =>
        ret = IF args.value = NoneText \/ NonSpaceAt(args.value) = {} THEN NoneText
              ELSE Trimmed(NbspToSpace(args.value))

\* C28: normalize_retailers is idempotent: called on a mapping it returned,
\* it succeeds and returns an equal mapping (the legacy extract step it
\* synthesized passes validation and is not appended again).
C28_Idempotent ==
    pc = "renormalized" =>
        /\ ~renormalized.raised
        /\ renormalized.value = normalized.value

\* The first call appended a legacy extract step with all three fields, and
\* the second call has been made on its result.
C28_Witness ==
    /\ pc = "renormalized"
    /\ ExtractSteps(given["shop"].flow) = {}
    /\ DeclaredBlocks(given["shop"]) = LegacyNames
    /\ Len(normalized.value["shop"].flow) = Len(given["shop"].flow) + 1
    /\ given["shop"].flow # <<>>

Missing(v) == v \in {NoneStr, ""}

\* The message of the first check the target being processed violates: its
\* retailer id is missing, is not in the configuration, or its product id is
\* missing; NoneStr when it passes all three.
RejectMessage ==
    IF Missing(retailer_id) THEN "Missing retailer_id in targets.csv row"
    ELSE IF retailer_id \notin DOMAIN retailers
    THEN "Retailer '" \o retailer_id \o "' not found in config"
    ELSE IF Missing(product_id) THEN "Missing product_id in targets.csv row"
    ELSE NoneStr

Rejected == targets # <<>> /\ RejectMessage # NoneStr

\* What holds of a rejected target at every point of its processing.
RejectedUntouched ==
    /\ GotoCalls = <<>> /\ StepCalls = <<>>
    /\ OnlyCaptureCalls
    /\ pc \in {"except", "write"} => exc.msg = RejectMessage
    /\ RowWritten => LastRow.error = RejectMessage

\* C29: a target row with a missing retailer id, a retailer id absent from
\* the configuration or a missing product id causes no navigation and no
\* wait on the page: the checks run in that order before run_one, the row
\* is written with the first violated check's message as its error, and the
\* page is left as the previous target left it, debug capture apart.
C29_RejectedTargetLeavesPage ==
    [][Rejected' => (page' = page /\ RejectedUntouched')]_vars

\* After a first target that loaded a page, a second target with an unknown
\* retailer and no product id had its row written with the retailer error.
C29_Witness ==
    /\ RowWritten /\ Len(rows) = 2
    /\ page # NoPage
    /\ retailer_id = "nope" /\ product_id = ""
    /\ LastRow.error = "Retailer 'nope' not found in config"
    /\ GotoCalls = <<>>

====
